---------------------------- MODULE Spec2Model ----------------------------
(***************************************************************************)
(* Model of the density server (src/server.py): the /query-density        *)
(* handler, the download-on-first-use step it runs first, the polygon     *)
(* builder and the two raster reducers.                                    *)
(*                                                                         *)
(* Numbers.  A finite pixel value is kept in half units (h stands for      *)
(* h/2), so that a raster can hold fractional values and the integer cast  *)
(* of the land-cover block is a real conversion.  A number in a response   *)
(* is a reduced fraction <<n, d>> with d > 0 (0.0 is <<0, 1>>).            *)
(* None/null is the empty tuple <<>>, an integer c of a nullable field is  *)
(* <<c>>.                                                                  *)
(***************************************************************************)
EXTENDS Integers, Sequences, FiniteSets, TLC

\* ------------------------------------------------------------------ bounds
\* Concurrent /query-density requests (Flask serves each in its own thread).
NReq == 2
\* Chunks the streamed download of a raster is written in.
NChunks == 2
\* Longest clipped pixel array the reducers are applied to.
MaxPix == 4
\* Longest coordinate list the geometry builder is applied to.
MaxPts == 4

\* ------------------------------------------------------- numbers (floats)
RECURSIVE Gcd(_, _)
Gcd(a, b) == IF b = 0 THEN a ELSE Gcd(b, a % b)

Abs(x) == IF x < 0 THEN -x ELSE x

\* The number n/d as a reduced fraction.
Rat(n, d) ==
    LET g == Gcd(Abs(n), d) IN <<n \div g, d \div g>>

Zero == Rat(0, 1)

RatLess(a, b) == a[1] * b[2] < b[1] * a[2]

\* Python's max(a, b): b when b > a, else a.
PyMax(a, b) == IF RatLess(a, b) THEN b ELSE a

\* ------------------------------------------------------------ pixel values
Fin(h) == [kind |-> "fin", h |-> h]
NaN == [kind |-> "nan", h |-> 0]
PosInf == [kind |-> "inf", h |-> 0]

\* np.isfinite(values)
IsFinite(p) == p.kind = "fin"

\* values > 0 (NaN compares false, +inf true)
GtZeroAlt(p) == p.kind = "inf" \/ (p.kind = "fin" /\ p.h >= 0)
GtZero(p) == p.kind = "inf" \/ (p.kind = "fin" /\ p.h > 0)

\* values[np.isfinite(values) & (values > 0)]
ValidPixels(values) == SelectSeq(values, LAMBDA p : IsFinite(p) /\ GtZero(p))

RECURSIVE SumH(_)
SumH(s) == IF s = <<>> THEN 0 ELSE Head(s).h + SumH(Tail(s))

\* np.max(valid), valid non-empty
NpMax(valid) ==
    LET i == CHOOSE i \in 1..Len(valid) :
                 \A j \in 1..Len(valid) : valid[j].h <= valid[i].h
    IN Rat(valid[i].h, 2)

\* np.mean(valid), valid non-empty
NpMean(valid) == Rat(SumH(valid), 2 * Len(valid))

\* The JRC block's reduction of the clipped band: (d_jrc_max, d_jrc_avg).
JrcReduce(values) ==
    LET valid == ValidPixels(values) IN
    IF Len(valid) > 0
    THEN [d_jrc_max |-> NpMax(valid), d_jrc_avg |-> NpMean(valid)]
    ELSE [d_jrc_max |-> Zero, d_jrc_avg |-> Zero]

\* ------------------------------------------------------- land-cover lookup
LUISA_DENSITY_MAP ==
    (1111 :> 5000) @@ (1121 :> 2500) @@ (1122 :> 1000) @@ (1123 :> 300) @@
    (1130 :> 200) @@ (1410 :> 200) @@ (1421 :> 800) @@ (1422 :> 1200) @@
    (1210 :> 600) @@ (1221 :> 200) @@ (1222 :> 1200) @@ (1230 :> 600) @@
    (1241 :> 300) @@ (1242 :> 1500) @@
    (1310 :> 50) @@ (1320 :> 10) @@ (1330 :> 100) @@
    (2110 :> 20) @@ (2120 :> 20) @@ (2130 :> 10) @@ (2210 :> 15) @@
    (2220 :> 15) @@ (2230 :> 15) @@ (2310 :> 15) @@ (2410 :> 15) @@
    (2420 :> 15) @@ (2430 :> 10) @@ (2440 :> 10) @@
    (3110 :> 5) @@ (3120 :> 5) @@ (3130 :> 5) @@ (3210 :> 5) @@
    (3220 :> 2) @@ (3230 :> 2) @@ (3240 :> 2) @@ (3310 :> 2) @@
    (3320 :> 1) @@ (3330 :> 1) @@ (3340 :> 1) @@ (3350 :> 0) @@
    (4000 :> 0) @@ (5110 :> 0) @@ (5120 :> 0) @@ (5210 :> 0) @@
    (5220 :> 0) @@ (5230 :> 0)

\* LUISA_DENSITY_MAP.get(int(cls), 0)
DensityGet(cls) ==
    IF cls \in DOMAIN LUISA_DENSITY_MAP THEN LUISA_DENSITY_MAP[cls] ELSE 0

\* valid.astype(int) on one pixel: truncation toward zero.
AsInt(p) == IF p.h >= 0 THEN p.h \div 2 ELSE -((-p.h) \div 2)

AsTypeInt(valid) == [i \in 1..Len(valid) |-> AsInt(valid[i])]

RECURSIVE SortedSeq(_)
SortedSeq(S) ==
    IF S = {} THEN <<>>
    ELSE LET m == CHOOSE m \in S : \A x \in S : m <= x
         IN <<m>> \o SortedSeq(S \ {m})

\* np.unique(codes, return_counts=True): the distinct codes in ascending
\* order, and the number of occurrences of each.
NpUnique(codes) ==
    LET unique == SortedSeq({codes[i] : i \in 1..Len(codes)}) IN
    [unique |-> unique,
     counts |-> [k \in 1..Len(unique) |->
                    Cardinality({i \in 1..Len(codes) : codes[i] = unique[k]})]]

\* np.argmax(counts): the first index holding the maximum.
NpArgmaxAlt(counts) ==
    CHOOSE k \in 1..Len(counts) :
        /\ \A j \in 1..Len(counts) : counts[j] <= counts[k]
        /\ \A j \in (k + 1)..Len(counts) : counts[j] < counts[k]
NpArgmax(counts) ==
    CHOOSE k \in 1..Len(counts) :
        /\ \A j \in 1..Len(counts) : counts[j] <= counts[k]
        /\ \A j \in 1..(k - 1) : counts[j] < counts[k]

\* The loop "for cls in unique: d_luisa_max = max(d_luisa_max, float(...))".
RECURSIVE ConservativeLoop(_, _)
ConservativeLoop(unique, acc) ==
    IF unique = <<>> THEN acc
    ELSE ConservativeLoop(Tail(unique),
                          PyMax(acc, Rat(DensityGet(Head(unique)), 1)))

\* The conservative density the LUISA block derives from the unique codes.
ConservativeMaxAlt(u) == Rat(DensityGet(u.unique[NpArgmax(u.counts)]), 1)
ConservativeMax(u) == ConservativeLoop(u.unique, Zero)

\* The LUISA block's reduction of the clipped band:
\* (d_luisa_max, luisa_class).
LuisaReduce(values) ==
    LET valid == ValidPixels(values) IN
    IF Len(valid) > 0
    THEN LET u == NpUnique(AsTypeInt(valid)) IN
         [d_luisa_max |-> ConservativeMax(u),
          luisa_class |-> <<u.unique[NpArgmax(u.counts)]>>]
    ELSE [d_luisa_max |-> Zero, luisa_class |-> <<>>]

\* -------------------------------------------------------- geometry builder
\* A coordinate list is a sequence of <<lng, lat>> pairs; None is <<>>, as
\* is the empty list (the code treats both alike: "not polygon_coords").

InvalidMsg == "Poligono invalido: requiere >= 3 puntos"
RingMsg == "A linearring requires at least 4 coordinates."

\* "Close ring if needed": polygon_coords + [polygon_coords[0]] unless the
\* first and last pairs are equal.
CloseRingAlt(coords) ==
    IF coords[1] # coords[Len(coords)]
    THEN Append(coords, coords[Len(coords)])
    ELSE coords
CloseRing(coords) ==
    IF coords[1] # coords[Len(coords)] THEN Append(coords, coords[1]) ELSE coords

\* Orientation of the triple (p, q, r): the sign of the cross product.
Cross(p, q, r) == (q[1] - p[1]) * (r[2] - p[2]) - (q[2] - p[2]) * (r[1] - p[1])

Min2(a, b) == IF a < b THEN a ELSE b
Max2(a, b) == IF a < b THEN b ELSE a

\* r lies on the closed segment pq.
OnSegment(p, q, r) ==
    /\ Cross(p, q, r) = 0
    /\ Min2(p[1], q[1]) <= r[1] /\ r[1] <= Max2(p[1], q[1])
    /\ Min2(p[2], q[2]) <= r[2] /\ r[2] <= Max2(p[2], q[2])

Sign(x) == IF x > 0 THEN 1 ELSE IF x < 0 THEN -1 ELSE 0

\* The closed segments ab and cd share a point.
SegmentsMeet(a, b, c, d) ==
    \/ /\ Sign(Cross(a, b, c)) * Sign(Cross(a, b, d)) < 0
       /\ Sign(Cross(c, d, a)) * Sign(Cross(c, d, b)) < 0
    \/ OnSegment(a, b, c) \/ OnSegment(a, b, d)
    \/ OnSegment(c, d, a) \/ OnSegment(c, d, b)

RECURSIVE TwiceArea(_)
TwiceArea(ring) ==
    IF Len(ring) < 2 THEN 0
    ELSE ring[1][1] * ring[2][2] - ring[2][1] * ring[1][2] + TwiceArea(Tail(ring))

\* poly.is_valid for a polygon with the closed shell `ring` and no holes:
\* the shell is a simple ring enclosing a non-zero area.
IsValid(ring) ==
    LET n == Len(ring) - 1      \* edges: ring[i] -> ring[i+1], i in 1..n
        nxt(i) == IF i = n THEN 1 ELSE i + 1
    IN  /\ n >= 3
        /\ TwiceArea(ring) # 0
        /\ \A i, j \in 1..n : i # j => ring[i] # ring[j]
        /\ \A i, j \in 1..n :
              (i < j /\ nxt(i) # j /\ nxt(j) # i)
                  => ~SegmentsMeet(ring[i], ring[i + 1], ring[j], ring[j + 1])
        /\ \A i \in 1..n :
              /\ ~OnSegment(ring[i], ring[i + 1], ring[nxt(i) + 1])
              /\ ~OnSegment(ring[nxt(i)], ring[nxt(i) + 1], ring[i])

\* shapely's Polygon(shell): the shell becomes a linear ring, which is
\* closed when its ends differ and must then have at least 4 coordinates.
ShapelyPolygon(coords) ==
    LET ring == IF coords[1] # coords[Len(coords)]
                THEN Append(coords, coords[1]) ELSE coords
    IN IF Len(ring) < 4 THEN [raised |-> TRUE, shell |-> <<>>]
       ELSE [raised |-> FALSE, shell |-> ring]

\* mapping(poly) of the polygon, after the "simple fix" poly.buffer(0) when
\* it is not valid.  The buffered polygon is GEOS's result on the shell and
\* is kept as that: the geometry "buffer(0) of shell".
MappingOf(shell) ==
    IF IsValid(shell)
    THEN [type |-> "Polygon", coordinates |-> <<shell>>]
    ELSE [type |-> "Buffer0", coordinates |-> <<shell>>]

\* _polygon_to_geojson(polygon_coords).  `raised` is the error message, ""
\* when the call returns; `value` the returned mapping; `caller` the
\* caller's list as it is after the call.
PolygonToGeojsonAlt(polygon_coords) ==
    IF polygon_coords = <<>>
    THEN [raised |-> InvalidMsg, value |-> <<>>, caller |-> polygon_coords]
    ELSE LET poly == ShapelyPolygon(CloseRing(polygon_coords)) IN
         IF poly.raised
         THEN [raised |-> RingMsg, value |-> <<>>, caller |-> polygon_coords]
         ELSE [raised |-> "", value |-> MappingOf(poly.shell),
               caller |-> polygon_coords]
PolygonToGeojson(polygon_coords) ==
    IF polygon_coords = <<>> \/ Len(polygon_coords) < 3
    THEN [raised |-> InvalidMsg, value |-> <<>>, caller |-> polygon_coords]
    ELSE LET poly == ShapelyPolygon(CloseRing(polygon_coords)) IN
         IF poly.raised
         THEN [raised |-> RingMsg, value |-> <<>>, caller |-> polygon_coords]
         ELSE [raised |-> "", value |-> MappingOf(poly.shell),
               caller |-> polygon_coords]

\* --------------------------------------------------------------- reconcile
\* d_popmax = max(d_jrc_max, d_luisa_max)
ReconcileAlt(d_jrc_max, d_luisa_max) == d_jrc_max
Reconcile(d_jrc_max, d_luisa_max) == PyMax(d_jrc_max, d_luisa_max)

\* ----------------------------------------------------- raster library calls
\* What rasterio does with one raster for one request is an input of the
\* model: whether rasterio.open succeeds, the raster's CRS (<<>> for
\* None), whether transform_geom and mask succeed, and the clipped band.
Geographic == {"EPSG:4326", "WGS84"}
Projected == "EPSG:3035"

\* transform_geom("EPSG:4326", raster_crs, geom_wgs84, precision=6)
TransformGeom(src, geom) ==
    IF src.transform
    THEN [raised |-> "", value |-> [crs |-> src.crs[1], of |-> geom]]
    ELSE [raised |-> "transform", value |-> <<>>]

\* mask(src, [geom], crop=True): raises when the geometry does not overlap
\* the raster, as a geographic geometry on a projected raster does not.
Mask(src, geom) ==
    IF src.mask /\ (src.crs = <<Projected>> => "of" \in DOMAIN geom)
    THEN [raised |-> "", out_image |-> <<src.band>>]
    ELSE [raised |-> "mask", out_image |-> <<>>]

\* _mask_with_reprojection(src, geom_wgs84)
MaskWithReprojection(src, geom_wgs84) ==
    IF src.crs = <<>>
    THEN Mask(src, geom_wgs84)
    ELSE IF src.crs[1] \in Geographic
         THEN Mask(src, geom_wgs84)
         ELSE LET t == TransformGeom(src, geom_wgs84) IN
              IF t.raised # "" THEN [raised |-> t.raised, out_image |-> <<>>]
              ELSE Mask(src, t.value)

\* "with rasterio.open(path) as src: out_image, _ = _mask_with_reprojection(
\* src, geom_wgs84); values = out_image[0]": the band, or the step that
\* raised.
ReadBand(src, geom_wgs84) ==
    IF ~src.open THEN [raised |-> "open", values |-> <<>>]
    ELSE LET m == MaskWithReprojection(src, geom_wgs84) IN
         IF m.raised # "" THEN [raised |-> m.raised, values |-> <<>>]
         ELSE [raised |-> "", values |-> m.out_image[1]]

\* The JRC block of query_density: the defaults, the exists() test and the
\* try/except around the read and the reduction.  `seen` records what the
\* block met; `escaped` whether an error left the block.
JrcBlockAlt(exists, src, geom_wgs84) ==
    IF ~exists
    THEN [d_jrc_max |-> Zero, d_jrc_avg |-> Zero, seen |-> "absent",
          escaped |-> FALSE]
    ELSE LET b == ReadBand(src, geom_wgs84) IN
         IF b.raised # ""
         THEN [d_jrc_max |-> Zero, d_jrc_avg |-> Zero, seen |-> b.raised,
               escaped |-> TRUE]
         ELSE JrcReduce(b.values) @@ [seen |-> "read", escaped |-> FALSE]
JrcBlock(exists, src, geom_wgs84) ==
    IF ~exists
    THEN [d_jrc_max |-> Zero, d_jrc_avg |-> Zero, seen |-> "absent",
          escaped |-> FALSE]
    ELSE LET b == ReadBand(src, geom_wgs84) IN
         IF b.raised # ""
         THEN [d_jrc_max |-> Zero, d_jrc_avg |-> Zero, seen |-> b.raised,
               escaped |-> FALSE]
         ELSE JrcReduce(b.values) @@ [seen |-> "read", escaped |-> FALSE]

\* The LUISA block of query_density, likewise.
LuisaBlock(exists, src, geom_wgs84) ==
    IF ~exists
    THEN [d_luisa_max |-> Zero, luisa_class |-> <<>>, seen |-> "absent",
          escaped |-> FALSE]
    ELSE LET b == ReadBand(src, geom_wgs84) IN
         IF b.raised # ""
         THEN [d_luisa_max |-> Zero, luisa_class |-> <<>>, seen |-> b.raised,
               escaped |-> FALSE]
         ELSE LuisaReduce(b.values) @@ [seen |-> "read", escaped |-> FALSE]

\* The JSON body of the 200 response.
DensityBody(j, l) ==
    [d_popmax |-> Reconcile(j.d_jrc_max, l.d_luisa_max),
     d_avg |-> j.d_jrc_avg,
     d_jrc_max |-> j.d_jrc_max,
     d_luisa_conservative |-> l.d_luisa_max,
     luisa_class |-> l.luisa_class]

\* The outer "except Exception as e": jsonify({"error": str(e)}), 500
ErrorResponse(msg) == [status |-> 500, body |-> [error |-> msg]]

\* data.get("polygon"), data being the request's JSON object or {}.
DataGet(data) == IF data.key = "list" THEN data.polygon ELSE <<>>

\* ------------------------------------------------------------------- state
VARIABLES
    url,     \* url[k]: JRC_URL / LUISA_URL is set
    path,    \* path[k]: the file at JRC_PATH / LUISA_PATH (0: none)
    tmp,     \* tmp[k]: the file at that path + ".part" (0: none)
    data,    \* data[k][f]: the chunks file f of raster k holds
    pc,      \* pc[r]: where request r is in query_density
    role,    \* role[r]: the raster ensure_data is at (index in RoleSeq)
    fd,      \* fd[r]: the file request r has open for writing (0: none)
    off,     \* off[r]: chunks request r has written to fd[r]
    body,    \* body[r]: the JSON body of request r
    geom,    \* geom[r]: geom_wgs84
    jrc,     \* jrc[r]: d_jrc_max, d_jrc_avg (and what the block met)
    luisa,   \* luisa[r]: d_luisa_max, luisa_class (and what the block met)
    resp,    \* resp[r]: the response, <<>> until there is one
    rpc, rin, rout,    \* the reducers applied to a pixel array
    gpc, gin, gout     \* the geometry builder applied to a coordinate list

fsvars == <<url, path, tmp, data>>
reqvars == <<pc, role, fd, off, body, geom, jrc, luisa, resp>>
redvars == <<rpc, rin, rout>>
geovars == <<gpc, gin, gout>>
vars == <<url, path, tmp, data, pc, role, fd, off, body, geom, jrc, luisa,
          resp, rpc, rin, rout, gpc, gin, gout>>

Reqs == 1..NReq
Roles == {"jrc", "luisa"}
\* ensure_data: JRC first, then LUISA
RoleSeq == <<"jrc", "luisa">>
Chunks == 1..NChunks
\* Files: 1..NReq is the file request r created, NReq + 1 the raster that
\* was at its path when the server started.
Provisioned == NReq + 1
Files == 1..(NReq + 1)

RECURSIVE SeqsUpTo(_, _)
SeqsUpTo(S, n) ==
    IF n = 0 THEN {<<>>}
    ELSE LET shorter == SeqsUpTo(S, n - 1) IN
         shorter \cup {Append(q, x) : q \in {t \in shorter : Len(t) = n - 1}, x \in S}

\* Request bodies: no "polygon" key, "polygon": null, and coordinate lists.
PtA == <<0, 0>>
PtB == <<2, 0>>
PtC == <<0, 2>>
PtD == <<2, 2>>
Bodies ==
    {[key |-> "missing", polygon |-> <<>>], [key |-> "null", polygon |-> <<>>]}
    \cup {[key |-> "list", polygon |-> c] :
             c \in {<<>>, <<PtA, PtB>>, <<PtA, PtB, PtC>>}}

\* Clipped bands of the request model (half units).
JrcExample == <<Fin(20), Fin(40), Fin(60), Fin(-10), Fin(0)>>
LuisaExample == <<Fin(2222), Fin(2222), Fin(2242), Fin(6700)>>
Bands == {<<Fin(0), NaN>>, LuisaExample}

\* What rasterio can do with a raster file: fail to open it, fail to
\* transform the geometry to its (projected) CRS, fail to clip it, or clip
\* it under any CRS.
CrsValues == {<<>>, <<"EPSG:4326">>, <<"WGS84">>, <<Projected>>}
Src(open, crs, transform, mask, band) ==
    [open |-> open, crs |-> crs, transform |-> transform, mask |-> mask,
     band |-> band]
Sources ==
    {Src(FALSE, <<>>, TRUE, TRUE, <<>>), Src(TRUE, <<Projected>>, FALSE, TRUE, <<>>)}
    \cup {Src(TRUE, c, TRUE, FALSE, <<>>) : c \in {<<>>, <<Projected>>}}
    \cup {Src(TRUE, c, TRUE, TRUE, b) : c \in CrsValues, b \in Bands}

NoJrc == [d_jrc_max |-> Zero, d_jrc_avg |-> Zero, seen |-> "", escaped |-> FALSE]
NoLuisa ==
    [d_luisa_max |-> Zero, luisa_class |-> <<>>, seen |-> "", escaped |-> FALSE]

InitReq ==
    /\ pc = [r \in Reqs |-> "idle"]
    /\ role = [r \in Reqs |-> 1]
    /\ fd = [r \in Reqs |-> 0]
    /\ off = [r \in Reqs |-> 0]
    /\ body = [r \in Reqs |-> [key |-> "missing", polygon |-> <<>>]]
    /\ geom = [r \in Reqs |-> <<>>]
    /\ jrc = [r \in Reqs |-> NoJrc]
    /\ luisa = [r \in Reqs |-> NoLuisa]
    /\ resp = [r \in Reqs |-> <<>>]

InitRed == rpc = "off" /\ rin = <<>> /\ rout = <<>>
InitGeo == gpc = "off" /\ gin = <<>> /\ gout = <<>>

\* The server starts with each raster either at its path (complete) or
\* not, and each URL set or not.
Init ==
    /\ url \in [Roles -> BOOLEAN]
    /\ path \in [Roles -> {0, Provisioned}]
    /\ tmp = [k \in Roles |-> 0]
    /\ data = [k \in Roles |-> [f \in Files |->
                  IF f = Provisioned /\ path[k] = Provisioned THEN Chunks ELSE {}]]
    /\ InitReq /\ InitRed /\ InitGeo

Cur(r) == RoleSeq[role[r]]

\* The request ends with the outer handler's 500.
Fail(r, msg) ==
    /\ pc' = [pc EXCEPT ![r] = "done"]
    /\ resp' = [resp EXCEPT ![r] = ErrorResponse(msg)]

\* _download_if_missing returned: on to the next raster, or to the body.
Returned(r) ==
    IF role[r] < Len(RoleSeq)
    THEN pc' = [pc EXCEPT ![r] = "exists"] /\ role' = [role EXCEPT ![r] = @ + 1]
    ELSE pc' = [pc EXCEPT ![r] = "parse"] /\ UNCHANGED role

\* A POST /query-density arrives.
Receive(r) ==
    /\ pc[r] = "idle"
    /\ \E b \in Bodies : body' = [body EXCEPT ![r] = b]
    /\ pc' = [pc EXCEPT ![r] = "exists"]
    /\ UNCHANGED <<fsvars, role, fd, off, geom, jrc, luisa, resp, redvars, geovars>>

\* _download_if_missing: "if path.exists() or not url: return"
Exists(r) ==
    /\ pc[r] = "exists"
    /\ IF path[Cur(r)] # 0 \/ ~url[Cur(r)]
       THEN Returned(r)
       ELSE pc' = [pc EXCEPT ![r] = "get"] /\ UNCHANGED role
    /\ UNCHANGED <<fsvars, fd, off, body, geom, jrc, luisa, resp, redvars, geovars>>

\* requests.get(url, stream=True) and r.raise_for_status()
HttpGet(r) ==
    /\ pc[r] = "get"
    /\ \/ pc' = [pc EXCEPT ![r] = "open"] /\ UNCHANGED resp
       \/ Fail(r, "download failed")
    /\ UNCHANGED <<fsvars, role, fd, off, body, geom, jrc, luisa, redvars, geovars>>

\* open(tmp, "wb"): creates the .part file, or truncates the one there.
OpenTmp(r) ==
    /\ pc[r] = "open"
    /\ LET k == Cur(r)
           f == IF tmp[k] = 0 THEN r ELSE tmp[k]
       IN /\ tmp' = [tmp EXCEPT ![k] = f]
          /\ data' = [data EXCEPT ![k][f] = {}]
          /\ fd' = [fd EXCEPT ![r] = f]
    /\ off' = [off EXCEPT ![r] = 0]
    /\ pc' = [pc EXCEPT ![r] = "write"]
    /\ UNCHANGED <<url, path, role, body, geom, jrc, luisa, resp, redvars, geovars>>

\* "for chunk in r.iter_content(...): f.write(chunk)": one chunk, at this
\* writer's own offset; after the last one the file is closed.
WriteChunk(r) ==
    /\ pc[r] = "write"
    /\ data' = [data EXCEPT ![Cur(r)][fd[r]] = @ \cup {off[r] + 1}]
    /\ off' = [off EXCEPT ![r] = @ + 1]
    /\ IF off[r] + 1 = NChunks
       THEN pc' = [pc EXCEPT ![r] = "replace"] /\ fd' = [fd EXCEPT ![r] = 0]
       ELSE UNCHANGED <<pc, fd>>
    /\ UNCHANGED <<url, path, tmp, role, body, geom, jrc, luisa, resp, redvars, geovars>>

\* The stream breaks while it is read: the error leaves the .part file.
StreamError(r) ==
    /\ pc[r] = "write"
    /\ Fail(r, "download failed")
    /\ fd' = [fd EXCEPT ![r] = 0]
    /\ UNCHANGED <<fsvars, role, off, body, geom, jrc, luisa, redvars, geovars>>

\* tmp.replace(path): FileNotFoundError when the .part file is gone.
Replace(r) ==
    /\ pc[r] = "replace"
    /\ LET k == Cur(r) IN
       IF tmp[k] = 0
       THEN Fail(r, "No such file or directory") /\ UNCHANGED <<path, tmp, role>>
       ELSE /\ path' = [path EXCEPT ![k] = tmp[k]]
            /\ tmp' = [tmp EXCEPT ![k] = 0]
            /\ Returned(r)
            /\ UNCHANGED resp
    /\ UNCHANGED <<url, data, fd, off, body, geom, jrc, luisa, redvars, geovars>>

\* data = request.get_json(...) or {}; polygon_coords = data.get("polygon");
\* geom_wgs84 = _polygon_to_geojson(polygon_coords)
Parse(r) ==
    /\ pc[r] = "parse"
    /\ LET g == PolygonToGeojson(DataGet(body[r])) IN
       IF g.raised # ""
       THEN Fail(r, g.raised) /\ UNCHANGED geom
       ELSE /\ geom' = [geom EXCEPT ![r] = g.value]
            /\ pc' = [pc EXCEPT ![r] = "jrc"]
            /\ UNCHANGED resp
    /\ UNCHANGED <<fsvars, role, fd, off, body, jrc, luisa, redvars, geovars>>

\* The JRC block.
EvalJrc(r) ==
    /\ pc[r] = "jrc"
    /\ \E src \in Sources :
          LET j == JrcBlock(path["jrc"] # 0, src, geom[r]) IN
          /\ jrc' = [jrc EXCEPT ![r] = j]
          /\ IF j.escaped
             THEN Fail(r, j.seen)
             ELSE pc' = [pc EXCEPT ![r] = "luisa"] /\ UNCHANGED resp
    /\ UNCHANGED <<fsvars, role, fd, off, body, geom, luisa, redvars, geovars>>

\* The LUISA block.
EvalLuisa(r) ==
    /\ pc[r] = "luisa"
    /\ \E src \in Sources :
          LET l == LuisaBlock(path["luisa"] # 0, src, geom[r]) IN
          /\ luisa' = [luisa EXCEPT ![r] = l]
          /\ IF l.escaped
             THEN Fail(r, l.seen)
             ELSE pc' = [pc EXCEPT ![r] = "respond"] /\ UNCHANGED resp
    /\ UNCHANGED <<fsvars, role, fd, off, body, geom, jrc, redvars, geovars>>

\* d_popmax = max(...); return jsonify({...})
Respond(r) ==
    /\ pc[r] = "respond"
    /\ resp' = [resp EXCEPT ![r] = [status |-> 200, body |-> DensityBody(jrc[r], luisa[r])]]
    /\ pc' = [pc EXCEPT ![r] = "done"]
    /\ UNCHANGED <<fsvars, role, fd, off, body, geom, jrc, luisa, redvars, geovars>>

Next ==
    \E r \in Reqs :
        \/ Receive(r) \/ Exists(r) \/ HttpGet(r) \/ OpenTmp(r) \/ WriteChunk(r)
        \/ StreamError(r) \/ Replace(r) \/ Parse(r) \/ EvalJrc(r) \/ EvalLuisa(r)
        \/ Respond(r)

Spec == Init /\ [][Next]_vars

\* ------------------------------------------- the reducers on pixel arrays
\* Pixel values the reducers are tried on: NaN, +inf, -5, 0, 0.5, 20,
\* 1111, 1111.5 and 1121 (half units).
PixelDomain ==
    {NaN, PosInf, Fin(-10), Fin(0), Fin(1), Fin(40), Fin(2222), Fin(2223),
     Fin(2242)}
PixelArrays == SeqsUpTo(PixelDomain, MaxPix) \cup {JrcExample, LuisaExample}

\* A raster that opens and clips to `band`, and the triangle it is clipped to.
GoodSource(band) == Src(TRUE, <<Projected>>, TRUE, TRUE, band)
Triangle == PolygonToGeojson(<<PtA, PtB, PtC>>).value

InitReduce ==
    /\ url = [k \in Roles |-> FALSE]
    /\ path = [k \in Roles |-> Provisioned]
    /\ tmp = [k \in Roles |-> 0]
    /\ data = [k \in Roles |-> [f \in Files |-> IF f = Provisioned THEN Chunks ELSE {}]]
    /\ InitReq /\ InitGeo
    /\ rpc = "in" /\ rin \in PixelArrays /\ rout = <<>>

\* The JRC block on a raster read successfully, the clipped band being rin.
ApplyJrc ==
    /\ rpc = "in"
    /\ rout' = JrcBlock(TRUE, GoodSource(rin), Triangle)
    /\ rpc' = "jrc"
    /\ UNCHANGED <<fsvars, reqvars, rin, geovars>>

\* The LUISA block on a raster read successfully, the clipped band being rin.
ApplyLuisa ==
    /\ rpc = "in"
    /\ rout' = LuisaBlock(TRUE, GoodSource(rin), Triangle)
    /\ rpc' = "luisa"
    /\ UNCHANGED <<fsvars, reqvars, rin, geovars>>

NextReduce == ApplyJrc \/ ApplyLuisa

SpecReduce == InitReduce /\ [][NextReduce]_vars

\* ------------------------------------ the geometry builder on coordinates
Points == {PtA, PtB, PtC, PtD}
CoordLists == SeqsUpTo(Points, MaxPts)

InitGeom ==
    /\ url = [k \in Roles |-> FALSE]
    /\ path = [k \in Roles |-> Provisioned]
    /\ tmp = [k \in Roles |-> 0]
    /\ data = [k \in Roles |-> [f \in Files |-> IF f = Provisioned THEN Chunks ELSE {}]]
    /\ InitReq /\ InitRed
    /\ gpc = "in" /\ gin \in CoordLists /\ gout = [given |-> <<>>, closed |-> <<>>]

\* _polygon_to_geojson on the list as given.
BuildGiven ==
    /\ gpc \in {"in", "closed"}
    /\ gout' = [gout EXCEPT !.given = PolygonToGeojson(gin)]
    /\ gpc' = IF gpc = "in" THEN "given" ELSE "both"
    /\ UNCHANGED <<fsvars, reqvars, redvars, gin>>

\* _polygon_to_geojson on the list with a copy of its first pair appended.
BuildClosed ==
    /\ gpc \in {"in", "given"}
    /\ gin # <<>>
    /\ gout' = [gout EXCEPT !.closed = PolygonToGeojson(Append(gin, gin[1]))]
    /\ gpc' = IF gpc = "in" THEN "closed" ELSE "both"
    /\ UNCHANGED <<fsvars, reqvars, redvars, gin>>

NextGeom == BuildGiven \/ BuildClosed

SpecGeom == InitGeom /\ [][NextGeom]_vars

\* ------------------------------------------------------------------ claims
ErrStages == {"open", "transform", "mask"}
Past(r, pcs) == pc[r] \in pcs
ValidBody(b) == b.key = "list" /\ PolygonToGeojson(b.polygon).raised = ""
ShortBody(b) == b.key # "list" \/ Len(b.polygon) < 3
Is200(r) == pc[r] = "done" /\ resp[r].status = 200
Is500(r) == pc[r] = "done" /\ resp[r].status = 500

C2_MissingRastersAnswer200 ==
    \A r \in Reqs :
        (pc[r] = "done" /\ ValidBody(body[r]) /\ \A k \in Roles : path[k] = 0)
            => /\ resp[r].status = 200
               /\ resp[r].body =
                     [d_popmax |-> <<0, 1>>, d_avg |-> <<0, 1>>,
                      d_jrc_max |-> <<0, 1>>,
                      d_luisa_conservative |-> <<0, 1>>, luisa_class |-> <<>>]

\* C3: no request writes or replaces a raster file or its .part file while
\* another request writes it, a file at a raster's configured path is never
\* partially written, and no request gets an answer it could not get alone
\* (alone, the .part file it wrote is still there when it renames it).
C3_NoWriterContention ==
    /\ \A r1, r2 \in Reqs :
          (r1 # r2 /\ fd[r1] # 0 /\ fd[r2] # 0 /\ Cur(r1) = Cur(r2))
              => fd[r1] # fd[r2]
    /\ \A k \in Roles : path[k] # 0 => data[k][path[k]] = Chunks
    /\ \A r \in Reqs :
          Is500(r) => resp[r].body.error # "No such file or directory"

\* C4: a request whose polygon is missing, null, empty or shorter than 3
\* points never gets past the geometry builder, which raises the
\* invalid-input error for it; its response is a 500 whose body holds only
\* "error", never a 200.
C4_ShortPolygonAnswers500 ==
    \A r \in Reqs :
        ShortBody(body[r]) =>
            /\ PolygonToGeojson(DataGet(body[r])).raised = InvalidMsg
            /\ ~Past(r, {"jrc", "luisa", "respond"})
            /\ pc[r] = "done" =>
                  /\ resp[r].status = 500
                  /\ DOMAIN resp[r].body = {"error"}
                  /\ resp[r].body.error \in
                        {InvalidMsg, "download failed", "No such file or directory"}

C4_Witness ==
    \E r \in Reqs :
        /\ Is500(r)
        /\ body[r].key = "list" /\ Len(body[r].polygon) = 2
        /\ resp[r].body.error = InvalidMsg

\* C5: in every 200 response d_popmax is one of d_jrc_max and
\* d_luisa_conservative of that response and is not below either.
C5_PopmaxIsMax ==
    \A r \in Reqs :
        Is200(r) =>
            LET b == resp[r].body
                geq(x, y) == x[1] * y[2] >= y[1] * x[2]
            IN /\ b.d_popmax \in {b.d_jrc_max, b.d_luisa_conservative}
               /\ geq(b.d_popmax, b.d_jrc_max)
               /\ geq(b.d_popmax, b.d_luisa_conservative)

C5_Witness ==
    \E r \in Reqs :
        /\ Is200(r)
        /\ resp[r].body.d_jrc_max = <<3350, 1>>
        /\ resp[r].body.d_luisa_conservative = <<5000, 1>>
        /\ resp[r].body.d_popmax = <<5000, 1>>

\* The valid pixels of rin, by index, and their integer class codes.
ValidIdx == {i \in 1..Len(rin) : rin[i].kind = "fin" /\ rin[i].h > 0}
CodeAt(i) ==
    LET near == rin[i].h \div 2 IN
    CHOOSE c \in (near - 1)..(near + 1) : 2 * c <= rin[i].h /\ rin[i].h < 2 * c + 2
CodesPresent == {CodeAt(i) : i \in ValidIdx}
TableValue(c) == IF c \in DOMAIN LUISA_DENSITY_MAP THEN LUISA_DENSITY_MAP[c] ELSE 0
CountOf(c) == Cardinality({i \in ValidIdx : CodeAt(i) = c})

\* C6: with the land-cover raster read, d_luisa_conservative is the largest
\* table value over all class codes present among the valid pixels (0 for
\* a code not in the table), 0.0 without valid pixels; the example array
\* gives 5000.
C6_ConservativeIsMaxOverClasses ==
    rpc = "luisa" =>
        /\ rout.seen = "read"
        /\ IF ValidIdx = {} THEN rout.d_luisa_max = <<0, 1>>
           ELSE \E c \in CodesPresent :
                   /\ rout.d_luisa_max = <<TableValue(c), 1>>
                   /\ \A c2 \in CodesPresent : TableValue(c2) <= TableValue(c)
        /\ rin = LuisaExample => rout.d_luisa_max = <<5000, 1>>

\* A non-dominant class carries the maximum: 1121, 1121, 1111.
C6_Witness ==
    /\ rpc = "luisa"
    /\ rin = <<Fin(2242), Fin(2242), Fin(2222)>>
    /\ rout.d_luisa_max = <<5000, 1>>
    /\ rout.luisa_class = <<1121>>

RECURSIVE SumOver(_)
SumOver(I) ==
    IF I = {} THEN 0
    ELSE LET i == CHOOSE i \in I : TRUE IN rin[i].h + SumOver(I \ {i})

\* C7: with the census raster read, d_jrc_max is the largest and d_avg the
\* mean (sum / count) of the pixels that are finite and > 0, both 0.0 when
\* there is none; the example array gives (30, 20).
C7_ContinuousStatsOverValid ==
    rpc = "jrc" =>
        /\ rout.seen = "read"
        /\ IF ValidIdx = {}
           THEN rout.d_jrc_max = <<0, 1>> /\ rout.d_jrc_avg = <<0, 1>>
           ELSE /\ \E i \in ValidIdx :
                      /\ rout.d_jrc_max[1] * 2 = rin[i].h * rout.d_jrc_max[2]
                      /\ \A j \in ValidIdx : rin[j].h <= rin[i].h
                /\ rout.d_jrc_avg[1] * 2 * Cardinality(ValidIdx)
                       = SumOver(ValidIdx) * rout.d_jrc_avg[2]
        /\ rin = JrcExample =>
              rout.d_jrc_max = <<30, 1>> /\ rout.d_jrc_avg = <<20, 1>>

C7_Witness ==
    /\ rpc = "jrc"
    /\ rin = JrcExample
    /\ rout.d_jrc_max = <<30, 1>> /\ rout.d_jrc_avg = <<20, 1>>

\* C8: for a list of at least 3 pairs whose ends differ, the builder
\* returns the geometry it returns for the list with a copy of the first
\* pair appended; a list that is already closed gets no extra point; the
\* caller's list is as it was.
C8_ClosingRing ==
    /\ (gpc = "both" /\ Len(gin) >= 3 /\ gin[1] # gin[Len(gin)]) =>
          /\ gout.given.raised = "" /\ gout.closed.raised = ""
          /\ gout.given.value = gout.closed.value
          /\ gout.given.value.coordinates[1] = Append(gin, gin[1])
    /\ (gpc \in {"given", "both"} /\ Len(gin) >= 4 /\ gin[1] = gin[Len(gin)]) =>
          /\ gout.given.raised = ""
          /\ gout.given.value.coordinates[1] = gin
    /\ gpc \in {"given", "both"} => gout.given.caller = gin

C8_Witness ==
    /\ gpc = "both"
    /\ gin = <<PtA, PtB, PtD>>
    /\ gout.given.value = gout.closed.value
    /\ Len(gout.given.value.coordinates[1]) = 4

\* C9: with the land-cover raster read, luisa_class is the class code with
\* the highest count among the valid pixels, the lowest such code on a tie,
\* and is null exactly when there is no valid pixel.
C9_DominantClassLowestOnTie ==
    rpc = "luisa" =>
        /\ rout.seen = "read"
        /\ (rout.luisa_class = <<>>) <=> (ValidIdx = {})
        /\ ValidIdx # {} =>
              \E c \in CodesPresent :
                  /\ rout.luisa_class = <<c>>
                  /\ \A c2 \in CodesPresent :
                        \/ CountOf(c2) < CountOf(c)
                        \/ CountOf(c2) = CountOf(c) /\ c <= c2

\* A tie between 1121 and 1111, the higher code first in the array.
C9_Witness ==
    /\ rpc = "luisa"
    /\ rin = <<Fin(2242), Fin(2223), Fin(0)>>
    /\ rout.luisa_class = <<1111>>

\* C10: for a valid polygon, what the response reports from one raster does
\* not depend on the other raster: a request whose JRC raster is in place
\* gets a 200 with the JRC block's fields whether the LUISA raster is
\* present, absent or failing, and the same with the roles exchanged.
C10_RasterEvaluationsIndependent ==
    \A r \in Reqs :
        (pc[r] = "done" /\ ValidBody(body[r])) =>
            /\ path["jrc"] = Provisioned =>
                  /\ resp[r].status = 200
                  /\ resp[r].body.d_jrc_max = jrc[r].d_jrc_max
                  /\ resp[r].body.d_avg = jrc[r].d_jrc_avg
            /\ path["luisa"] = Provisioned =>
                  /\ resp[r].status = 200
                  /\ resp[r].body.d_luisa_conservative = luisa[r].d_luisa_max
                  /\ resp[r].body.luisa_class = luisa[r].luisa_class

=============================================================================
